---- MODULE Spec2Model ----
(***************************************************************************)
(* Model of spamsearch.py: the resumable, concurrent probing engine.       *)
(*                                                                         *)
(* Strings are sequences of tokens (" ", "#", "/", "https://", "http://",  *)
(* host letters).  A text file is the sequence of its lines.  Each worker  *)
(* thread of the ThreadPoolExecutor runs procesar_sitio for one entry of   *)
(* sitios_pendientes; the main thread runs main().  The servers are the    *)
(* environment: every HTTP request ends with a response chosen             *)
(* nondeterministically from PreflightResponses / PayloadResponses.        *)
(*                                                                         *)
(* Scope: the target list exists; the logs hold only lines the tool wrote; *)
(* appending to a log and printing do not fail; a run is interrupted at    *)
(* most once, while the main thread is inside the executor block.          *)
(***************************************************************************)
EXTENDS Integers, Sequences, FiniteSets

\* ------------------------------------------------------------------ bounds
MaxSitios == 2
MaxRuns == 2

\* -------------------------------------------------------- program constants
\* MAX_WORKERS is 15 in the source; the model scales it down, and runs the
\* tool with every pool size from one worker to MAX_WORKERS, so that the pool
\* is saturated by the bounded target list.
MAX_WORKERS == 2

endpoints == <<"/a/rivo/otc/login_request", "/apps/ba-loy/otc/login_request">>

HITS_FILE == "sitiosexito.txt"
FAILS_FILE == "fail.txt"

\* ------------------------------------------------------------------ strings
WS == {" "}

Range(s) == {s[i] : i \in 1..Len(s)}

RECURSIVE lstrip(_)
lstrip(s) == IF s # <<>> /\ Head(s) \in WS THEN lstrip(Tail(s)) ELSE s

RECURSIVE rstrip(_, _)
rstrip(s, chars) ==
    IF s # <<>> /\ s[Len(s)] \in chars THEN rstrip(SubSeq(s, 1, Len(s) - 1), chars) ELSE s

strip(s) == rstrip(lstrip(s), WS)

startswith(s, tok) == s # <<>> /\ Head(s) = tok

\* normalizar_sitio: scheme kept when present, https:// otherwise; trailing
\* slashes removed.
normalizar_sitio(line) ==
    LET l == strip(line) IN
    IF startswith(l, "http://") \/ startswith(l, "https://")
    THEN rstrip(l, {"/"})
    ELSE <<"https://">> \o rstrip(l, {"/"})

\* cargar_lista_sitios: stripped lines, without blank lines and comments.
cargar_lista_sitios(file) ==
    LET stripped == [i \in 1..Len(file) |-> strip(file[i])]
        keep(l) == l # <<>> /\ ~startswith(l, "#")
    IN SelectSeq(stripped, keep)

\* Variant: only the HIT log is read.
cargar_procesados_hits(hits, fails) ==
    {strip(l) : l \in Range(hits)} \ {<<>>}

\* cargar_procesados: the set of non-blank stripped lines of both logs.
cargar_procesados(hits, fails) ==
    {strip(l) : l \in Range(hits) \cup Range(fails)} \ {<<>>}

\* [s for s in sitios if s not in procesados]
filtrar_pendientes(sitios, procs) ==
    LET keep(s) == s \notin procs IN SelectSeq(sitios, keep)

\* -------------------------------------------------------------- environment
\* Lines a target list may hold.
RawLines ==
    { <<"a">>, <<" ", "b", "/">>, <<"#", "a">> }

SitiosFiles ==
    UNION { [1..n -> RawLines] : n \in 0..MaxSitios }

\* Responses to the preflight request.  kind "neterr" is a
\* requests.RequestException; body kinds: "text" is not JSON, "list" is JSON
\* that is not an object, "object" is a JSON object with the given fields.
NoBody == [kind |-> "none", status |-> 0, error |-> ""]
PreflightResponses ==
    { [net |-> "neterr", status |-> 0, body |-> NoBody],
      [net |-> "ok", status |-> 404, body |-> NoBody],
      [net |-> "ok", status |-> 400, body |-> [kind |-> "text", status |-> 0, error |-> ""]],
      [net |-> "ok", status |-> 400, body |-> [kind |-> "list", status |-> 0, error |-> ""]],
      [net |-> "ok", status |-> 400,
       body |-> [kind |-> "object", status |-> 400, error |-> "Invalid"]],
      [net |-> "ok", status |-> 400,
       body |-> [kind |-> "object", status |-> 400, error |-> "Bad Request"]] }

NoResponse == [net |-> "none", status |-> 0, body |-> NoBody]

PayloadResponses ==
    { [net |-> "neterr", status |-> 0] }
    \cup { [net |-> "ok", status |-> s] : s \in {199, 200, 299, 300} }


\* -------------------------------------------------------------------- state
VARIABLES
    sitiosFile,         \* sitios.txt: the lines of the target list
    hitsFile,           \* sitiosexito.txt: the lines of the HIT log
    failsFile,          \* fail.txt: the lines of the FAIL log
    progress,           \* the shared dict {"total", "processed"}
    lock,               \* threading.Lock: 0 when free, else the task holding it
    mainpc,             \* position of the main thread
    procesados,         \* main's local: the processed set
    sitios_pendientes,  \* main's local: the pending targets, in file order
    submitted,          \* number of executor.submit calls made
    interrupts,         \* KeyboardInterrupts delivered to the main thread
    summary,            \* the count printed by the final summary, -1 before it
    tpc,                \* per task: position inside procesar_sitio
    path,               \* per task: index of the endpoint being probed
    hubo_hit,           \* per task: the local flag hubo_hit
    resp1,              \* per task: the last preflight outcome, until it is reported
                        \* as the endpoint's failure or the payload response arrives
    reqs,               \* history, per running task: its requests and how they ended
    wrote,              \* history, per running task: the logs it appended to
    hits0,              \* history: the HIT log as the run found it
    fails0,             \* history: the FAIL log as the run found it
    run,                \* history: number of the current process run
    prevFull,           \* history: the previous run ended without an interrupt
    max_workers         \* size of the thread pool (the configured MAX_WORKERS)

vars == <<sitiosFile, hitsFile, failsFile, progress, lock, mainpc, procesados,
          sitios_pendientes, submitted, interrupts, summary, tpc, path, hubo_hit, resp1, reqs,
          wrote, hits0, fails0, run, prevFull, max_workers>>

files == <<sitiosFile, hitsFile, failsFile>>
mainLocals == <<procesados, sitios_pendientes, submitted>>
taskLocals == <<path, hubo_hit, resp1>>
snapshot == <<hits0, fails0, run, prevFull>>

TaskIds == 1..MaxSitios
NPaths == Len(endpoints)

\* Module load (lines 22-26) of a fresh process; the files are what is on disk.
Boot(sf, hf, ff, r, pf) ==
    /\ sitiosFile = sf
    /\ hitsFile = hf
    /\ failsFile = ff
    /\ progress = [total |-> 0, processed |-> 0]
    /\ lock = 0
    /\ mainpc = "boot"
    /\ procesados = {}
    /\ sitios_pendientes = <<>>
    /\ submitted = 0
    /\ interrupts = 0
    /\ summary = -1
    /\ tpc = [t \in TaskIds |-> "unsub"]
    /\ path = [t \in TaskIds |-> 0]
    /\ hubo_hit = [t \in TaskIds |-> FALSE]
    /\ resp1 = [t \in TaskIds |-> NoResponse]
    /\ reqs = [t \in TaskIds |-> <<>>]
    /\ wrote = [t \in TaskIds |-> <<>>]
    /\ hits0 = hf
    /\ fails0 = ff
    /\ run = r
    /\ prevFull = pf

Init ==
    /\ \E sf \in SitiosFiles : Boot(sf, <<>>, <<>>, 1, FALSE)
    /\ max_workers \in 1..MAX_WORKERS

\* Variant: the "error" field of the body is not compared.
is_first_ok_status(r) ==
    IF r.status # 400 THEN "no"
    ELSE IF r.body.kind = "text" THEN "no"
    ELSE IF r.body.kind = "list" THEN "raise"
    ELSE IF r.body.status = 400 THEN "yes"
    ELSE "no"

\* ------------------------------------------------------- procesar_sitio
\* Lines 179-185: the preflight response has status 400 and a JSON body j
\* with j.get("status") == 400 and j.get("error") == "Bad Request".
\* "raise": resp1.json() returned a value without .get (AttributeError is
\* not a ValueError, so it leaves the inner try).
is_first_ok(r) ==
    IF r.status # 400 THEN "no"
    ELSE IF r.body.kind = "text" THEN "no"
    ELSE IF r.body.kind = "list" THEN "raise"
    ELSE IF r.body.status = 400 /\ r.body.error = "Bad Request" THEN "yes"
    ELSE "no"

\* Variant: the upper limit is included.
is_2xx_upto300(status) == 200 <= status /\ status <= 300

\* Line 201.
is_2xx(status) == 200 <= status /\ status < 300

\* How a request ended, as the history records it.
ExpectedBody == [kind |-> "object", status |-> 400, error |-> "Bad Request"]

PreflightLabel(r) ==
    IF r.net = "ok" /\ r.status = 400 /\ r.body = ExpectedBody THEN "match" ELSE "nomatch"

PayloadLabel(r) ==
    IF r.net = "ok" /\ r.status \in 200..299 THEN "2xx" ELSE "fail"

\* The argument of the invocation that runs as task t.
sitio(t) == sitios_pendientes[t]

\* url = base_url + path (line 168).
Req(t, p, s) ==
    [url |-> normalizar_sitio(sitio(t)) \o <<endpoints[p]>>, path |-> p, step |-> s,
     out |-> "inflight"]

Ended(rs, label) == [rs EXCEPT ![Len(rs)].out = label]

\* The invocations a worker thread is executing.  "failed": the invocation
\* raised and its future holds the exception; the worker thread is free again.
Running == {t \in TaskIds : tpc[t] \notin {"unsub", "queued", "done", "failed"}}

\* Variant: one thread per submitted invocation, whatever the pool size.
Start_unbounded(t) ==
    /\ tpc[t] = "queued"
    /\ tpc' = [tpc EXCEPT ![t] = "pre"]
    /\ path' = [path EXCEPT ![t] = 1]
    /\ hubo_hit' = [hubo_hit EXCEPT ![t] = FALSE]
    /\ reqs' = [reqs EXCEPT ![t] = <<Req(t, 1, "pre")>>]
    /\ UNCHANGED resp1
    /\ UNCHANGED <<files, progress, lock, mainpc, mainLocals, interrupts, summary, wrote,
                   snapshot, max_workers>>

\* A worker thread takes the oldest queued work item and runs lines 140-172:
\* the preflight request of the first endpoint is in flight.  The pool has
\* max_workers threads, each running one work item at a time.
Start(t) ==
    /\ tpc[t] = "queued"
    /\ \A u \in TaskIds : u < t => tpc[u] # "queued"
    /\ Cardinality(Running) < max_workers
    /\ tpc' = [tpc EXCEPT ![t] = "pre"]
    /\ path' = [path EXCEPT ![t] = 1]
    /\ hubo_hit' = [hubo_hit EXCEPT ![t] = FALSE]
    /\ reqs' = [reqs EXCEPT ![t] = <<Req(t, 1, "pre")>>]
    /\ UNCHANGED resp1
    /\ UNCHANGED <<files, progress, lock, mainpc, mainLocals, interrupts, summary, wrote,
                   snapshot, max_workers>>

\* An exception is raised in lines 140-163 (normalizar_sitio, hacer_headers,
\* requests.Session(), the payload dict), which are outside the try statement
\* of line 166: no except or finally clause runs, the exception leaves
\* procesar_sitio and is stored in the future.
SetupRaises(t) ==
    /\ tpc[t] = "queued"
    /\ \A u \in TaskIds : u < t => tpc[u] # "queued"
    /\ Cardinality(Running) < max_workers
    /\ tpc' = [tpc EXCEPT ![t] = "failed"]
    /\ UNCHANGED <<files, progress, lock, mainpc, mainLocals, interrupts, summary, taskLocals,
                   reqs, wrote, snapshot, max_workers>>

\* What resp1 shows when session.post raised.
RaisedResponse == [net |-> "raise", status |-> 0, body |-> NoBody]

\* session.post (line 172 or 195) raises an exception that is not a
\* requests.RequestException: the inner except clauses do not catch it and
\* the except clause of line 216 is entered.
RequestRaises(t) ==
    /\ tpc[t] \in {"pre", "pay"}
    /\ reqs' = [reqs EXCEPT ![t] = Ended(reqs[t], IF tpc[t] = "pre" THEN "nomatch" ELSE "fail")]
    /\ resp1' = [resp1 EXCEPT ![t] = RaisedResponse]
    /\ tpc' = [tpc EXCEPT ![t] = "exc"]
    /\ UNCHANGED <<files, progress, lock, mainpc, mainLocals, interrupts, summary, path,
                   hubo_hit, wrote, snapshot, max_workers>>

\* Lines 172-195: the preflight request ends.
RecvPreflight(t) ==
    /\ tpc[t] = "pre"
    /\ \E r \in PreflightResponses :
        LET ended == Ended(reqs[t], PreflightLabel(r))
            ok == IF r.net = "neterr" THEN "no" ELSE is_first_ok(r)
        IN  /\ tpc' = [tpc EXCEPT ![t] =
                    CASE ok = "yes" -> "pay"
                      [] ok = "raise" -> "exc"
                      [] OTHER -> "print"]
            /\ reqs' = [reqs EXCEPT ![t] =
                    IF ok = "yes" THEN Append(ended, Req(t, path[t], "pay")) ELSE ended]
            /\ resp1' = [resp1 EXCEPT ![t] = r]
    /\ UNCHANGED <<files, progress, lock, mainpc, mainLocals, interrupts, summary, path,
                   hubo_hit, wrote, snapshot, max_workers>>

\* Lines 195-208: the payload request ends.
RecvPayload(t) ==
    /\ tpc[t] = "pay"
    /\ \E r \in PayloadResponses :
        /\ reqs' = [reqs EXCEPT ![t] = Ended(reqs[t], PayloadLabel(r))]
        /\ hubo_hit' = [hubo_hit EXCEPT ![t] =
                IF r.net = "ok" /\ is_2xx(r.status) THEN TRUE ELSE hubo_hit[t]]
    /\ tpc' = [tpc EXCEPT ![t] = "print"]
    /\ resp1' = [resp1 EXCEPT ![t] = NoResponse]
    /\ UNCHANGED <<files, progress, lock, mainpc, mainLocals, interrupts, summary, path,
                   wrote, snapshot, max_workers>>

\* "with lock: print(...)" of lines 174, 189, 197, 204, 207: the lock is taken.
PrintPath(t) ==
    /\ tpc[t] = "print"
    /\ lock = 0
    /\ lock' = t
    /\ tpc' = [tpc EXCEPT ![t] = "print_cs"]
    /\ resp1' = [resp1 EXCEPT ![t] = NoResponse]
    /\ UNCHANGED <<files, progress, mainpc, mainLocals, interrupts, summary, path, hubo_hit,
                   reqs, wrote, snapshot, max_workers>>

\* Variant: after the loop the result is not saved before the finally clause.
EndPrintPath_nosave(t) ==
    /\ tpc[t] = "print_cs"
    /\ lock = t
    /\ lock' = 0
    /\ IF path[t] < NPaths
       THEN /\ path' = [path EXCEPT ![t] = path[t] + 1]
            /\ reqs' = [reqs EXCEPT ![t] = Append(reqs[t], Req(t, path[t] + 1, "pre"))]
            /\ tpc' = [tpc EXCEPT ![t] = "pre"]
       ELSE /\ tpc' = [tpc EXCEPT ![t] = "prog"]
            /\ UNCHANGED <<path, reqs>>
    /\ UNCHANGED <<files, progress, mainpc, mainLocals, interrupts, summary, hubo_hit, resp1,
                   wrote, snapshot, max_workers>>

\* The lock is released and the for loop goes on: the next endpoint's
\* preflight request is issued, or the loop is over (line 211).
EndPrintPath(t) ==
    /\ tpc[t] = "print_cs"
    /\ lock = t
    /\ lock' = 0
    /\ IF path[t] < NPaths
       THEN /\ path' = [path EXCEPT ![t] = path[t] + 1]
            /\ reqs' = [reqs EXCEPT ![t] = Append(reqs[t], Req(t, path[t] + 1, "pre"))]
            /\ tpc' = [tpc EXCEPT ![t] = "pre"]
       ELSE /\ tpc' = [tpc EXCEPT ![t] = "save"]
            /\ UNCHANGED <<path, reqs>>
    /\ UNCHANGED <<files, progress, mainpc, mainLocals, interrupts, summary, hubo_hit, resp1,
                   wrote, snapshot, max_workers>>

\* Variant: the normalized base URL is written instead of the identifier.
guardar_resultado_url(t, file_path) ==
    /\ lock = 0
    /\ lock' = t
    /\ IF file_path = HITS_FILE
       THEN /\ hitsFile' = Append(hitsFile, normalizar_sitio(sitio(t)))
            /\ wrote' = [wrote EXCEPT ![t] = Append(wrote[t], "HIT")]
            /\ UNCHANGED failsFile
       ELSE /\ failsFile' = Append(failsFile, normalizar_sitio(sitio(t)))
            /\ wrote' = [wrote EXCEPT ![t] = Append(wrote[t], "FAIL")]
            /\ UNCHANGED hitsFile

\* guardar_resultado(file_path, sitio): the line is appended under the lock.
guardar_resultado(t, file_path) ==
    /\ lock = 0
    /\ lock' = t
    /\ IF file_path = HITS_FILE
       THEN /\ hitsFile' = Append(hitsFile, sitio(t))
            /\ wrote' = [wrote EXCEPT ![t] = Append(wrote[t], "HIT")]
            /\ UNCHANGED failsFile
       ELSE /\ failsFile' = Append(failsFile, sitio(t))
            /\ wrote' = [wrote EXCEPT ![t] = Append(wrote[t], "FAIL")]
            /\ UNCHANGED hitsFile

\* Variant: the else of line 213 is missing, a HIT is also written as FAIL.
Guardar_both(t) ==
    /\ tpc[t] = "save"
    /\ lock = 0
    /\ lock' = t
    /\ IF hubo_hit[t]
       THEN /\ hitsFile' = Append(hitsFile, sitio(t))
            /\ failsFile' = Append(failsFile, sitio(t))
            /\ wrote' = [wrote EXCEPT ![t] = wrote[t] \o <<"HIT", "FAIL">>]
       ELSE /\ failsFile' = Append(failsFile, sitio(t))
            /\ wrote' = [wrote EXCEPT ![t] = Append(wrote[t], "FAIL")]
            /\ UNCHANGED hitsFile
    /\ tpc' = [tpc EXCEPT ![t] = "save_cs"]
    /\ UNCHANGED <<sitiosFile, progress, mainpc, mainLocals, interrupts, summary, taskLocals, reqs,
                   snapshot, max_workers>>

\* Lines 211-214.
Guardar(t) ==
    /\ tpc[t] = "save"
    /\ guardar_resultado(t, IF hubo_hit[t] THEN HITS_FILE ELSE FAILS_FILE)
    /\ tpc' = [tpc EXCEPT ![t] = "save_cs"]
    /\ UNCHANGED <<sitiosFile, progress, mainpc, mainLocals, interrupts, summary, taskLocals, reqs,
                   snapshot, max_workers>>

\* Lines 216-218: the except clause prints under the lock.
ExcPrint(t) ==
    /\ tpc[t] = "exc"
    /\ lock = 0
    /\ lock' = t
    /\ tpc' = [tpc EXCEPT ![t] = "exc_cs"]
    /\ UNCHANGED <<files, progress, mainpc, mainLocals, interrupts, summary, taskLocals, reqs,
                   wrote, snapshot, max_workers>>

\* Variant: guardar_resultado is called inside the with block of line 217.
EndExcPrint_nested(t) ==
    /\ tpc[t] = "exc_cs"
    /\ lock = t
    /\ tpc' = [tpc EXCEPT ![t] = "excsave"]
    /\ UNCHANGED <<files, progress, lock, mainpc, mainLocals, interrupts, summary, taskLocals,
                   reqs, wrote, snapshot, max_workers>>

\* The with block of lines 217-218 ends: the lock is released before line 219.
EndExcPrint(t) ==
    /\ tpc[t] = "exc_cs"
    /\ lock = t
    /\ lock' = 0
    /\ tpc' = [tpc EXCEPT ![t] = "excsave"]
    /\ UNCHANGED <<files, progress, mainpc, mainLocals, interrupts, summary, taskLocals, reqs,
                   wrote, snapshot, max_workers>>

\* Variant: the except clause does not persist the target.
GuardarExc_nowrite(t) ==
    /\ tpc[t] = "excsave"
    /\ tpc' = [tpc EXCEPT ![t] = "prog"]
    /\ UNCHANGED <<files, progress, lock, mainpc, mainLocals, interrupts, summary,
                   taskLocals, reqs, wrote, snapshot, max_workers>>

\* Line 219.
GuardarExc(t) ==
    /\ tpc[t] = "excsave"
    /\ guardar_resultado(t, FAILS_FILE)
    /\ tpc' = [tpc EXCEPT ![t] = "save_cs"]
    /\ UNCHANGED <<sitiosFile, progress, mainpc, mainLocals, interrupts, summary, taskLocals, reqs,
                   snapshot, max_workers>>

\* Variant: the lock is not released when guardar_resultado returns.
EndGuardar_keeplock(t) ==
    /\ tpc[t] = "save_cs"
    /\ lock = t
    /\ tpc' = [tpc EXCEPT ![t] = "prog"]
    /\ UNCHANGED <<files, progress, lock, mainpc, mainLocals, interrupts, summary, taskLocals,
                   reqs, wrote, snapshot, max_workers>>

\* guardar_resultado returns: the lock is released; the finally clause is next.
EndGuardar(t) ==
    /\ tpc[t] = "save_cs"
    /\ lock = t
    /\ lock' = 0
    /\ tpc' = [tpc EXCEPT ![t] = "prog"]
    /\ UNCHANGED <<files, progress, mainpc, mainLocals, interrupts, summary, taskLocals, reqs,
                   wrote, snapshot, max_workers>>

\* Variant: only targets classified HIT are counted.
actualizar_progreso_hits(t) ==
    /\ tpc[t] = "prog"
    /\ lock = 0
    /\ lock' = t
    /\ progress' = [progress EXCEPT !.processed =
            IF hubo_hit[t] THEN progress.processed + 1 ELSE progress.processed]
    /\ tpc' = [tpc EXCEPT ![t] = "prog_cs"]
    /\ UNCHANGED <<files, mainpc, mainLocals, interrupts, summary, taskLocals, reqs, wrote,
                   snapshot, max_workers>>

\* Variant: the counter is incremented without taking the lock.
actualizar_progreso_nolock(t) ==
    /\ tpc[t] = "prog"
    /\ progress' = [progress EXCEPT !.processed = progress.processed + 1]
    /\ tpc' = [tpc EXCEPT ![t] = "prog_cs"]
    /\ UNCHANGED <<files, lock, mainpc, mainLocals, interrupts, summary, taskLocals, reqs, wrote,
                   snapshot, max_workers>>

\* actualizar_progreso: the counter is incremented under the lock.
actualizar_progreso(t) ==
    /\ tpc[t] = "prog"
    /\ lock = 0
    /\ lock' = t
    /\ progress' = [progress EXCEPT !.processed = progress.processed + 1]
    /\ tpc' = [tpc EXCEPT ![t] = "prog_cs"]
    /\ UNCHANGED <<files, mainpc, mainLocals, interrupts, summary, taskLocals, reqs, wrote, snapshot, max_workers>>

\* actualizar_progreso and procesar_sitio return: the future is done.  The
\* locals of the invocation are gone, and its history is dropped with them.
EndProgreso(t) ==
    /\ tpc[t] = "prog_cs"
    /\ lock = t
    /\ lock' = 0
    /\ tpc' = [tpc EXCEPT ![t] = "done"]
    /\ path' = [path EXCEPT ![t] = 0]
    /\ hubo_hit' = [hubo_hit EXCEPT ![t] = FALSE]
    /\ resp1' = [resp1 EXCEPT ![t] = NoResponse]
    /\ reqs' = [reqs EXCEPT ![t] = <<>>]
    /\ wrote' = [wrote EXCEPT ![t] = <<>>]
    /\ UNCHANGED <<files, progress, mainpc, mainLocals, interrupts, summary, snapshot, max_workers>>

\* ------------------------------------------------------------------- main
\* A future is done when its invocation returned or raised.
AllSubmittedDone == \A t \in 1..submitted : tpc[t] \in {"done", "failed"}

\* Lines 230-246.
MainLoad ==
    /\ mainpc = "boot"
    /\ LET sitios == cargar_lista_sitios(sitiosFile)
           procs == cargar_procesados(hitsFile, failsFile)
           pend == filtrar_pendientes(sitios, procs)
       IN  /\ procesados' = procs
           /\ sitios_pendientes' = pend
           /\ IF pend = <<>>
              THEN /\ mainpc' = "exited"
                   /\ UNCHANGED progress
              ELSE /\ mainpc' = "submit"
                   /\ progress' = [total |-> Len(pend), processed |-> 0]
    /\ UNCHANGED <<files, lock, submitted, interrupts, summary, tpc, taskLocals, reqs, wrote, snapshot, max_workers>>

\* Line 250: one executor.submit; after the last one as_completed starts.
Submit ==
    /\ mainpc = "submit"
    /\ submitted < Len(sitios_pendientes)
    /\ submitted' = submitted + 1
    /\ tpc' = [tpc EXCEPT ![submitted + 1] = "queued"]
    /\ mainpc' = IF submitted + 1 = Len(sitios_pendientes) THEN "wait" ELSE "submit"
    /\ UNCHANGED <<files, progress, lock, procesados, sitios_pendientes, interrupts, summary,
                   taskLocals, reqs, wrote, snapshot, max_workers>>

\* Variant: the loop calls future.result(), which raises the exception of a
\* failed invocation in the main thread, and main ends without its summary.
AsCompleted_result ==
    /\ mainpc = "wait"
    /\ \/ /\ \E t \in 1..submitted : tpc[t] = "failed"
          /\ mainpc' = "crashed"
       \/ /\ \A t \in 1..submitted : tpc[t] = "done"
          /\ mainpc' = "shutdown"
    /\ UNCHANGED <<files, progress, lock, mainLocals, interrupts, summary, tpc, taskLocals, reqs,
                   wrote, snapshot, max_workers>>

\* Lines 252-253: as_completed has yielded every future, without looking at
\* its result or exception; the with block ends and calls
\* executor.shutdown(wait=True).
AsCompleted ==
    /\ mainpc = "wait"
    /\ AllSubmittedDone
    /\ mainpc' = "shutdown"
    /\ UNCHANGED <<files, progress, lock, mainLocals, interrupts, summary, tpc, taskLocals, reqs,
                   wrote, snapshot, max_workers>>

\* Variant: the interrupt is handled without waiting for the pool.
KeyboardInterrupt_abort ==
    /\ mainpc \in {"submit", "wait"}
    /\ interrupts = 0
    /\ interrupts' = 1
    /\ mainpc' = "exited"
    /\ summary' = progress.processed
    /\ UNCHANGED <<files, progress, lock, mainLocals, tpc, taskLocals, reqs, wrote,
                   snapshot, max_workers>>

\* Ctrl+C reaches the main thread inside the with body of lines 249-253: the
\* block is left through executor.shutdown(wait=True).  A run is interrupted
\* at most once.
KeyboardInterrupt ==
    /\ mainpc \in {"submit", "wait"}
    /\ interrupts = 0
    /\ interrupts' = 1
    /\ mainpc' = "shutdown"
    /\ UNCHANGED <<files, progress, lock, mainLocals, summary, tpc, taskLocals, reqs, wrote,
                   snapshot, max_workers>>

\* Variant: shutdown(wait=False), main goes on while invocations run.
Shutdown_nowait ==
    /\ mainpc = "shutdown"
    /\ mainpc' = "exited"
    /\ summary' = progress.processed
    /\ UNCHANGED <<files, progress, lock, mainLocals, interrupts, tpc, taskLocals, reqs,
                   wrote, snapshot, max_workers>>

\* shutdown(wait=True) returns once the workers have drained the queue; lines
\* 255-260 run to the end of main (the interrupt message when the block was
\* left by a KeyboardInterrupt, then the final summary) and the process exits.
Shutdown ==
    /\ mainpc = "shutdown"
    /\ AllSubmittedDone
    /\ mainpc' = "exited"
    /\ summary' = progress.processed
    /\ UNCHANGED <<files, progress, lock, mainLocals, interrupts, tpc, taskLocals, reqs,
                   wrote, snapshot, max_workers>>

\* The tool is run again on the same target list and the logs as they are.
NewRun ==
    /\ mainpc = "exited"
    /\ run < MaxRuns
    /\ progress' = [total |-> 0, processed |-> 0]
    /\ lock' = 0
    /\ mainpc' = "boot"
    /\ procesados' = {}
    /\ sitios_pendientes' = <<>>
    /\ submitted' = 0
    /\ interrupts' = 0
    /\ summary' = -1
    /\ tpc' = [t \in TaskIds |-> "unsub"]
    /\ path' = [t \in TaskIds |-> 0]
    /\ hubo_hit' = [t \in TaskIds |-> FALSE]
    /\ resp1' = [t \in TaskIds |-> NoResponse]
    /\ reqs' = [t \in TaskIds |-> <<>>]
    /\ wrote' = [t \in TaskIds |-> <<>>]
    /\ hits0' = hitsFile
    /\ fails0' = failsFile
    /\ run' = run + 1
    /\ prevFull' = (interrupts = 0)
    /\ UNCHANGED <<files, max_workers>>

Worker(t) ==
    \/ Start(t)
    \/ RecvPreflight(t)
    \/ RecvPayload(t)
    \/ PrintPath(t)
    \/ EndPrintPath(t)
    \/ Guardar(t)
    \/ ExcPrint(t)
    \/ EndExcPrint(t)
    \/ GuardarExc(t)
    \/ EndGuardar(t)
    \/ actualizar_progreso(t)
    \/ EndProgreso(t)

Main ==
    \/ MainLoad
    \/ Submit
    \/ AsCompleted
    \/ KeyboardInterrupt
    \/ Shutdown
    \/ NewRun

Next == Main \/ \E t \in TaskIds : Worker(t)

Spec == Init /\ [][Next]_vars

\* One run of the tool that is not interrupted.
RunNext ==
    \/ MainLoad
    \/ Submit
    \/ AsCompleted
    \/ Shutdown
    \/ \E t \in TaskIds : Worker(t)

\* The main thread and every worker thread are scheduled again and again; an
\* HTTP request ends (the timeouts of lines 172 and 195).
Fairness ==
    /\ WF_vars(MainLoad \/ Submit \/ AsCompleted \/ Shutdown)
    /\ \A t \in TaskIds : WF_vars(Worker(t))

LiveSpec == Init /\ [][RunNext]_vars /\ Fairness

\* One uninterrupted run in which exceptions are raised in procesar_sitio at
\* the places where no response of a server decides them.
FaultNext ==
    \/ RunNext
    \/ \E t \in TaskIds : SetupRaises(t)
    \/ \E t \in TaskIds : RequestRaises(t)

FaultSpec == Init /\ [][FaultNext]_vars /\ Fairness

\* ------------------------------------------------------------ properties
Classified(t) == wrote[t] # <<>>

HasSuccess(t) ==
    \E i \in 1..Len(reqs[t]) : reqs[t][i].step = "pay" /\ reqs[t][i].out = "2xx"

IsPreflight(q) == q.step = "pre"

PreflightPaths(t) ==
    LET pre == SelectSeq(reqs[t], IsPreflight) IN [i \in 1..Len(pre) |-> pre[i].path]

AllPaths == [i \in 1..NPaths |-> i]

OldLines == Range(hits0) \cup Range(fails0)

Appended == Len(hitsFile) + Len(failsFile) - Len(hits0) - Len(fails0)

Bad400(r) == r.net = "ok" /\ r.status = 400 /\ r.body # ExpectedBody

\* The positions of procesar_sitio inside a "with lock:" block.
Critical == {"print_cs", "exc_cs", "save_cs", "prog_cs"}

InCritical == {t \in TaskIds : tpc[t] \in Critical}

\* C1: an invocation of procesar_sitio appends exactly one line, to exactly
\* one of the two logs: never more than one at any moment, exactly one once
\* the invocation has reached its finally clause, whatever its endpoints did;
\* the two logs grow by one line per invocation that has saved its result.
C1_ExactlyOneLine ==
    /\ \A t \in TaskIds :
        /\ Len(wrote[t]) <= 1
        /\ tpc[t] \in {"save_cs", "prog", "prog_cs"} => Len(wrote[t]) = 1
    /\ Appended = Cardinality({t \in TaskIds : tpc[t] \in {"save_cs", "prog", "prog_cs", "done"}})

\* An invocation that went through the except clause has written its line to
\* the FAIL log and is about to return.
C1_Witness ==
    \E t \in TaskIds :
        /\ tpc[t] = "prog_cs"
        /\ resp1[t].body.kind = "list"
        /\ wrote[t] = <<"FAIL">>
        /\ Len(failsFile) = Len(fails0) + 1

\* C2: a target one of whose payload requests returned a status in
\* [200, 300) is written to the HIT log, whatever the other endpoints did.
C2_SuccessIsHit ==
    \A t \in TaskIds : Classified(t) /\ HasSuccess(t) => wrote[t] = <<"HIT">>

\* C3: a target none of whose payload requests returned a status in
\* [200, 300) is written to the FAIL log and never to the HIT log.
C3_NoSuccessIsFail ==
    \A t \in TaskIds : Classified(t) /\ ~HasSuccess(t) => wrote[t] = <<"FAIL">>

\* Both endpoints passed the preflight and both payload requests were
\* rejected; the target is in the FAIL log.
C3_Witness ==
    \E t \in TaskIds :
        /\ wrote[t] = <<"FAIL">>
        /\ Len(reqs[t]) = 2 * NPaths
        /\ \A i \in 1..Len(reqs[t]) : reqs[t][i].out \in {"match", "fail"}
        /\ failsFile # <<>> /\ failsFile[Len(failsFile)] = sitio(t)

\* C4: a target that is a line of the HIT log or of the FAIL log when the
\* run starts is not in the pending list, no task of the run is for it (no
\* request is issued for it), and no line appended during the run is one of
\* the lines the logs already held.
C4_ProcessedExcluded ==
    mainpc # "boot" =>
        /\ \A i \in 1..Len(sitios_pendientes) : sitios_pendientes[i] \notin OldLines
        /\ \A t \in TaskIds : tpc[t] # "unsub" =>
                t <= Len(sitios_pendientes) /\ sitio(t) \notin OldLines
        /\ \A t \in TaskIds : (reqs[t] # <<>> \/ wrote[t] # <<>>) =>
                t <= Len(sitios_pendientes) /\ sitio(t) \notin OldLines
        /\ \A i \in (Len(hits0) + 1)..Len(hitsFile) : hitsFile[i] \notin OldLines
        /\ \A i \in (Len(fails0) + 1)..Len(failsFile) : failsFile[i] \notin OldLines

\* A resumed run: the list holds a target the logs already held, the other
\* target was pending and has been probed and logged.
C4_Witness ==
    /\ mainpc = "exited"
    /\ OldLines # {}
    /\ \E l \in Range(cargar_lista_sitios(sitiosFile)) : l \in OldLines
    /\ sitios_pendientes # <<>>
    /\ Appended = 1

\* C5: a run that follows an uninterrupted run on the same list and the
\* same logs finds no pending target, starts no task, issues no request and
\* leaves both logs as it found them.
C5_SecondRunEmpty ==
    (run > 1 /\ prevFull /\ mainpc # "boot") =>
        /\ sitios_pendientes = <<>>
        /\ mainpc = "exited"
        /\ submitted = 0
        /\ \A t \in TaskIds : tpc[t] = "unsub" /\ reqs[t] = <<>>
        /\ hitsFile = hits0 /\ failsFile = fails0

\* The second run has ended after a first run that logged a HIT and a FAIL.
C5_Witness ==
    /\ run = 2 /\ prevFull /\ mainpc = "exited"
    /\ hitsFile # <<>> /\ failsFile # <<>>
    /\ cargar_lista_sitios(sitiosFile) # <<>>

\* C6: total is the number of pending targets from the start of the run on;
\* processed grows one by one, never exceeds total, counts the invocations
\* that have passed their increment whatever their outcome, and after an
\* uninterrupted run equals the number of pending targets.
C6_ProgressCounter ==
    /\ [](mainpc # "boot" =>
            /\ progress.total = Len(sitios_pendientes)
            /\ progress.processed <= progress.total
            /\ progress.processed =
                    Cardinality({t \in TaskIds : tpc[t] \in {"prog_cs", "done"}})
            /\ (mainpc = "exited" /\ interrupts = 0) =>
                    /\ progress.processed = Len(sitios_pendientes)
                    /\ sitios_pendientes # <<>> => summary = Len(sitios_pendientes))
    /\ [][mainpc \notin {"boot", "exited"} =>
            /\ progress'.total = progress.total
            /\ progress'.processed \in {progress.processed, progress.processed + 1}]_vars

\* An uninterrupted run has ended with one target logged HIT and one FAIL,
\* and both are counted.
C6_Witness ==
    /\ mainpc = "exited" /\ interrupts = 0
    /\ progress.processed = 2
    /\ Len(hitsFile) = Len(hits0) + 1
    /\ Len(failsFile) = Len(fails0) + 1

\* C7: the preflight requests of a target are issued for the configured
\* endpoints in the configured order, once each, and when the target is
\* classified every endpoint has had its preflight request.
C7_AllPathsProbed ==
    \A t \in TaskIds :
        /\ PreflightPaths(t) = SubSeq(AllPaths, 1, Len(PreflightPaths(t)))
        /\ Classified(t) => PreflightPaths(t) = AllPaths

\* C8: a payload request is in flight only on a preflight response with
\* status 400 and the body {status: 400, error: "Bad Request"}; every payload
\* request follows the matching preflight request to the same URL, and a
\* preflight that ended otherwise is followed by no payload request to its
\* URL.
C8_PayloadOnlyAfterMatch ==
    \A t \in TaskIds :
        /\ tpc[t] = "pay" =>
                resp1[t] = [net |-> "ok", status |-> 400, body |-> ExpectedBody]
        /\ \A i \in 1..Len(reqs[t]) :
            /\ reqs[t][i].step = "pay" =>
                    /\ i > 1
                    /\ reqs[t][i - 1].step = "pre"
                    /\ reqs[t][i - 1].url = reqs[t][i].url
                    /\ reqs[t][i - 1].out = "match"
            /\ (reqs[t][i].step = "pre" /\ reqs[t][i].out = "nomatch") =>
                    \A j \in 1..Len(reqs[t]) :
                        reqs[t][j].step = "pay" => reqs[t][j].url # reqs[t][i].url

\* The first endpoint's preflight did not match, the second one's did and
\* its payload request is in flight.
C8_Witness ==
    \E t \in TaskIds :
        /\ tpc[t] = "pay"
        /\ Len(reqs[t]) = 3
        /\ reqs[t][1].out = "nomatch"
        /\ reqs[t][3].step = "pay"

\* C9: a preflight response with status 400 and a body of another shape
\* fails only its endpoint: a target is not classified on such a response
\* while endpoints remain to be probed, and when it was the last endpoint
\* the target is classified by the payload results of the other endpoints.
C9_Bad400FailsOnlyItsPath ==
    \A t \in TaskIds :
        (Bad400(resp1[t]) /\ Classified(t)) =>
            /\ path[t] = NPaths
            /\ HasSuccess(t) => wrote[t] = <<"HIT">>

\* C10 as stated: once the main thread has been interrupted no queued
\* invocation is started.
C10_NoStartAfterInterrupt ==
    [][\A t \in TaskIds :
          (interrupts > 0 /\ tpc[t] = "queued") => tpc'[t] = "queued"]_vars

\* C10 as amended: once the main thread has been interrupted no further
\* invocation is submitted, the targets not submitted stay untouched, and the
\* process exits only when every submitted invocation, running or queued at
\* the interrupt, has returned and its line is in a log.
C10_SubmittedRunToCompletion ==
    /\ [][(interrupts > 0 /\ mainpc # "exited") => submitted' = submitted]_vars
    /\ [](\A t \in TaskIds : t > submitted => tpc[t] = "unsub" /\ reqs[t] = <<>>)
    /\ [](mainpc = "exited" =>
            /\ \A t \in 1..submitted : tpc[t] = "done"
            /\ Appended = submitted
            /\ progress.processed = submitted)

\* An interrupted run has ended: one target was submitted and is logged, the
\* other one was never submitted.
C10_Witness ==
    /\ mainpc = "exited" /\ interrupts = 1
    /\ submitted = 1 /\ Len(sitios_pendientes) = 2
    /\ Appended = 1

\* C11: at every moment at most max_workers invocations of procesar_sitio
\* are executing, however many have been submitted: the invocations that are
\* neither queued nor finished never outnumber the workers of the pool.
C11_AtMostWorkers ==
    /\ Cardinality(Running) <= max_workers
    /\ Cardinality({t \in TaskIds : tpc[t] \notin {"unsub", "done"}}) <= submitted

\* Every worker of the pool is executing an invocation while a submitted
\* invocation waits in the queue.
C11_Witness ==
    /\ Cardinality(Running) = max_workers
    /\ \E t \in TaskIds : tpc[t] = "queued"
    /\ submitted > max_workers

\* C12: every append to a log and every increment of processed is made by a
\* task that has just taken the lock and holds it; a task is inside a
\* critical section exactly when it holds the lock, so no two tasks are
\* inside one together; each such step adds one line or one count, and at
\* the end of the run processed is the number of increments made.
C12_WritesUnderLock ==
    /\ [](\A t \in TaskIds : tpc[t] \in Critical <=> lock = t)
    /\ [](Cardinality(InCritical) <= 1)
    /\ [][(mainpc \notin {"boot", "exited"}
            /\ (hitsFile' # hitsFile \/ failsFile' # failsFile
                    \/ progress'.processed # progress.processed)) =>
                /\ lock = 0
                /\ lock' \in TaskIds
                /\ tpc[lock'] \in {"save", "excsave", "prog"}
                /\ tpc'[lock'] \in {"save_cs", "prog_cs"}
                /\ \A u \in TaskIds \ {lock'} : tpc'[u] = tpc[u]
                /\ Len(hitsFile') + Len(failsFile') + progress'.processed
                        = Len(hitsFile) + Len(failsFile) + progress.processed + 1]_vars
    /\ [](mainpc = "exited" /\ sitios_pendientes # <<>> =>
                /\ lock = 0
                /\ summary = Cardinality({t \in TaskIds : tpc[t] = "done"})
                /\ Appended = summary)

\* One task holds the lock after appending its line while the other task,
\* whose loop is over too, waits for the lock to append its own.
C12_Witness ==
    \E t, u \in TaskIds :
        /\ t # u
        /\ tpc[t] = "save_cs" /\ lock = t
        /\ tpc[u] \in {"save", "excsave"}

\* The invocation of task t went through the except clause of line 216.
Raised(t) == resp1[t].net = "raise" \/ resp1[t].body.kind = "list"

NewFails == SubSeq(failsFile, Len(fails0) + 1, Len(failsFile))

\* C13: an invocation in which an exception was raised, wherever it was
\* raised, writes its target to the FAIL log once and increments processed
\* once: an invocation that went through the except clause holds exactly the
\* line FAIL when it returns, an invocation whose exception left
\* procesar_sitio has its target in the FAIL log, and processed counts every
\* invocation that has ended.
C13_ExceptionIsFail ==
    /\ \A t \in TaskIds : (Raised(t) /\ tpc[t] = "prog_cs") => wrote[t] = <<"FAIL">>
    /\ \A t \in TaskIds : tpc[t] = "failed" => sitio(t) \in Range(NewFails)
    /\ progress.processed =
            Cardinality({t \in TaskIds : tpc[t] \in {"prog_cs", "done", "failed"}})

\* C14: an invocation that fails, through the except clause or with an
\* exception that leaves procesar_sitio, changes no other invocation and not
\* the main thread, and holds no lock afterwards; the run reaches its normal
\* end, and at that end every pending target has had its invocation and every
\* invocation that returned has its line in a log and is counted.
C14_FailureIsIsolated ==
    /\ [][\A t \in TaskIds :
            (tpc'[t] \in {"failed", "exc"} /\ tpc'[t] # tpc[t]) =>
                /\ \A u \in TaskIds \ {t} :
                        tpc'[u] = tpc[u] /\ reqs'[u] = reqs[u] /\ wrote'[u] = wrote[u]
                /\ mainpc' = mainpc
                /\ lock' = lock /\ lock # t]_vars
    /\ [](\A t \in TaskIds : tpc[t] = "failed" => lock # t)
    /\ [](mainpc = "exited" =>
            /\ \A t \in 1..Len(sitios_pendientes) : tpc[t] \in {"done", "failed"}
            /\ Appended = Cardinality({t \in TaskIds : tpc[t] = "done"})
            /\ sitios_pendientes # <<>> => summary = Appended)
    /\ <>(mainpc = "exited")

\* The run has ended with its summary: the invocation of one target raised
\* before its try statement, the other target was probed and is logged.
C14_Witness ==
    /\ mainpc = "exited"
    /\ \E t, u \in TaskIds : tpc[t] = "failed" /\ tpc[u] = "done"
    /\ Appended = 1
    /\ summary = 1

Count(seq, x) == Cardinality({i \in 1..Len(seq) : seq[i] = x})

NewHits == SubSeq(hitsFile, Len(hits0) + 1, Len(hitsFile))

\* The lines the run has appended for identifier s.
Persisted(s) == Count(NewHits, s) + Count(NewFails, s)

\* No request of task t repeats an earlier one (same URL, same step).
NoRepeatedRequest(t) ==
    \A i, j \in 1..Len(reqs[t]) :
        (i # j /\ reqs[t][i].url = reqs[t][j].url) => reqs[t][i].step # reqs[t][j].step

C16_RunTerminates ==
    /\ <>(mainpc = "exited")
    /\ [](mainpc \in {"shutdown", "exited"} =>
            /\ submitted = Len(sitios_pendientes)
            /\ \A t \in 1..submitted : tpc[t] = "done")
    /\ [](mainpc = "exited" =>
            /\ Appended = Len(sitios_pendientes)
            /\ progress.processed = Len(sitios_pendientes)
            /\ lock = 0)

\* The run of a list of two targets has ended with both of them logged.
C16_Witness ==
    /\ mainpc = "exited"
    /\ Len(sitios_pendientes) = 2
    /\ Appended = 2
    /\ summary = 2
    /\ interrupts = 0

\* The invocations whose append to a log has been made.
SaveAttempted == {t \in TaskIds : tpc[t] \in {"save_cs", "prog", "prog_cs", "done"}}

\* C17: processed never exceeds the number of invocations of the run that
\* have made their append, nor the number of lines appended in the run, and
\* an invocation that is incrementing processed has already appended its line.
C17_LoggedBeforeCounted ==
    /\ progress.processed <= Cardinality(SaveAttempted)
    /\ progress.processed <= Appended
    /\ \A t \in TaskIds : tpc[t] \in {"prog", "prog_cs"} => wrote[t] # <<>>

\* A target's line is in a log and its invocation has not yet incremented
\* processed: the counter is one behind the appended lines.
C17_Witness ==
    /\ \E t \in TaskIds : tpc[t] = "prog" /\ wrote[t] # <<>>
    /\ Appended = progress.processed + 1
    /\ progress.processed = 1

\* The invocations that are about to enter a "with lock:" block.
LockWanted == {t \in TaskIds : tpc[t] \in {"print", "exc", "excsave", "save", "prog"}}

Acquire(t) ==
    PrintPath(t) \/ ExcPrint(t) \/ Guardar(t) \/ GuardarExc(t) \/ actualizar_progreso(t)

Release(t) ==
    EndPrintPath(t) \/ EndExcPrint(t) \/ EndGuardar(t) \/ EndProgreso(t)

\* C18: a task with a request in flight does not hold the lock; a task that
\* is about to take the lock does not hold it already; the holder of the lock
\* can always release it, and when the lock is free every task that wants it
\* can take it, whatever requests the other tasks have in flight.
C18_LockDiscipline ==
    /\ \A t \in TaskIds : tpc[t] \in {"pre", "pay"} => lock # t
    /\ \A t \in LockWanted : lock # t
    /\ lock # 0 => ENABLED Release(lock)
    /\ \A t \in LockWanted : lock = 0 => ENABLED Acquire(t)

\* One task appends its line under the lock while the payload request of
\* the other task is in flight.
C18_Witness ==
    \E t, u \in TaskIds :
        /\ tpc[t] = "pay"
        /\ tpc[u] = "save_cs" /\ lock = u

\* C19: after the interrupt of a run the main thread prints nothing while an
\* invocation it submitted is queued or running; when the summary is printed
\* every submitted invocation, started before or after the interrupt, has
\* returned, and the summary shows the number of submitted invocations.
C19_SummaryAfterSubmitted ==
    interrupts = 1 =>
        /\ (\E t \in 1..submitted : tpc[t] # "done") => (mainpc = "shutdown" /\ summary = -1)
        /\ mainpc = "shutdown" => summary = -1
        /\ summary # -1 =>
                /\ mainpc = "exited"
                /\ summary = submitted
                /\ progress.processed = submitted

\* The main thread has been interrupted and waits in the shutdown of the
\* pool: one invocation is running and another one, submitted before the
\* interrupt, is still queued.
C19_Witness ==
    /\ interrupts = 1 /\ mainpc = "shutdown" /\ summary = -1
    /\ \E t, u \in TaskIds : tpc[t] = "queued" /\ tpc[u] \in {"pre", "pay"}

====
